---- MODULE Spec2Model ----
(***************************************************************************)
(* Model of devops_pipelines/deploy_wheels_file_to_fabric.py: the bounded- *)
(* retry transport (_fabric_api_request), the resource operations built on *)
(* it and the lifecycle controller (run_wheel_deployment_to_fabric with    *)
(* its poll loop).  The program is sequential: the state is the Python     *)
(* call stack with the locals of each active function, the clock, the      *)
(* artifact file handle and what the program has sent and printed so far.  *)
(* The remote API is the environment: every response is drawn from the     *)
(* responses the wire contract allows.                                     *)
(*                                                                         *)
(* Text (URLs, library names) is a sequence of tokens: a token is either   *)
(* one character or a literal chunk of the source's f-string.              *)
(***************************************************************************)
EXTENDS Integers, Sequences, FiniteSets, TLC

\* ------------------------------------------------------------- bounds
\* Seconds the HTTP attempts of one wait add to the clock, all together
\* (an attempt takes no measurable time, or some of these seconds).
MaxLatency == 1
\* Largest max_retries a direct call of _fabric_api_request is given.
MaxRetriesArg == 4
\* Largest timeout_in_minutes a direct call of the wait is given.
MaxTimeoutArg == 1
\* The system clock may be set while the program runs, forwards or
\* backwards: by how many seconds.
MaxClockJump == 60
\* Most state reads followed in one wait of the run.
MaxPolls == 3

\* -------------------------------------------------- program constants
DefaultMaxRetries == 3
RetrySleepSeconds == 3
PollSleepSeconds == 30
DefaultTimeoutMinutes == 40
SecondsPerMinute == 60
HttpOk == 200

\* ----------------------------------------------------------- the text
ApiBase == <<"https://api.fabric.microsoft.com/">>

WorkspaceId == "W"
EnvironmentId == "E"

\* str.lstrip('/'): drop every leading slash.
RECURSIVE LStripSlash(_)
LStripSlash(s) ==
    IF s # <<>> /\ Head(s) = "/" THEN LStripSlash(Tail(s)) ELSE s

\* request_url = f"https://api.fabric.microsoft.com/{request_url.lstrip('/')}"
FullUrl(request_url) == ApiBase \o LStripSlash(request_url)

\* The characters library names are made of.
Letters == {"a", "b"}
NameChars == Letters \cup {" ", "/"}

\* urllib.parse.quote(c) for one character, with the default safe="/":
\* letters are unreserved and "/" is safe, both are kept; a space is
\* percent-encoded.
QuoteChar(c) ==
    IF c \in Letters \/ c = "/" THEN <<c>>
    ELSE IF c = " " THEN <<"%", "2", "0">>
    ELSE <<"%", "?", "?">>

RECURSIVE Quote(_)
Quote(s) == IF s = <<>> THEN <<>> ELSE QuoteChar(Head(s)) \o Quote(Tail(s))

EnvironmentPath ==
    <<"workspaces/", WorkspaceId, "/environments/", EnvironmentId>>
LibrariesPath == EnvironmentPath \o <<"/libraries">>
StagingLibrariesPath == EnvironmentPath \o <<"/staging/libraries">>
DeletePath(library_name) ==
    StagingLibrariesPath \o <<"?libraryToDelete=">> \o Quote(library_name)
CancelPath == EnvironmentPath \o <<"/staging/cancelPublish">>
PublishPath == EnvironmentPath \o <<"/staging/publish">>

\* Paths a direct call of _fabric_api_request is given.
DirectPaths == {<<"p">>, <<"/", "p">>, <<"/", "/", "p">>}

\* ---------------------------------------------------------- the values
\* Publish states the remote reports; Running stands for every state in
\* progress (the program tells Success, Failed and Cancelled from the rest).
States == {"Success", "Failed", "Cancelled", "Running"}

\* Library names the remote listing may hold.
LibNames == {<<"a">>, <<"b", " ", "/", "a">>}

\* Every list of names of S without a repeat (a name is a key of the
\* environment's library set), up to length n.
RECURSIVE ListsOf(_, _)
ListsOf(S, n) ==
    IF n = 0 THEN {<<>>}
    ELSE LET shorter == ListsOf(S, n - 1)
         IN  shorter \cup
             UNION {{Append(q, x) : x \in {y \in S : \A i \in 1 .. Len(q) : q[i] # y}} :
                        q \in shorter}

\* A decoded JSON body (a Python dict), with the fields the program reads:
\* properties.publishDetails.state and customLibraries.wheelFiles.
EmptyBody ==
    [py |-> "dict", hasState |-> FALSE, state |-> "", hasCL |-> FALSE,
     hasWF |-> FALSE, wheelFiles |-> <<>>]

EnvironmentBodies ==
    {[EmptyBody EXCEPT !.hasState = TRUE, !.state = s] : s \in States}
        \cup {EmptyBody}

LibrariesBodies ==
    {[EmptyBody EXCEPT !.hasCL = TRUE, !.hasWF = TRUE, !.wheelFiles = w] :
        w \in ListsOf(LibNames, Cardinality(LibNames))}
        \cup {EmptyBody, [EmptyBody EXCEPT !.hasCL = TRUE]}

\* A requests.Response: the status code, the raw text and what .json() gives.
NoResponse == [py |-> "Response", status_code |-> 0, text |-> "", body |-> EmptyBody]

ErrorResponses ==
    {[py |-> "Response", status_code |-> c[1], text |-> c[2], body |-> EmptyBody] :
        c \in {<<404, "not found">>, <<500, "server error">>}}

OkResponses(bodies) ==
    {[py |-> "Response", status_code |-> HttpOk, text |-> "json", body |-> b] :
        b \in bodies}

\* What the remote may answer to a request, by endpoint.
ResponsesTo(method, url) ==
    ErrorResponses \cup
    OkResponses(IF method = "GET" /\ url = FullUrl(EnvironmentPath)
                    THEN EnvironmentBodies
                ELSE IF method = "GET" /\ url = FullUrl(LibrariesPath)
                    THEN LibrariesBodies
                ELSE {EmptyBody})

\* Path(file_path).name: the name the artifact is uploaded under.
Wheel == <<"w">>

\* The staging area of the environment, as far as the program's requests
\* tell: unknown until the published libraries are listed.  What it holds
\* then is any set of artifacts, whatever the listing says is published.
NoStaging == [known |-> FALSE, names |-> {}]

\* The staging area after a request was answered: a delete answered 200
\* removed the artifact named in libraryToDelete, an upload answered 200
\* added the artifact; a request answered otherwise changed nothing.
StagingAfter(s, method, url, response) ==
    IF response.status_code # HttpOk THEN {s}
    ELSE IF method = "GET" /\ url = FullUrl(LibrariesPath)
        THEN IF s.known THEN {s}
             ELSE {[known |-> TRUE, names |-> n] : n \in SUBSET LibNames}
    ELSE IF method = "DELETE"
        THEN {[s EXCEPT !.names = @ \ {n \in LibNames : url = FullUrl(DeletePath(n))}]}
    ELSE IF method = "POST" /\ url = FullUrl(StagingLibrariesPath)
        THEN {[s EXCEPT !.names = @ \cup {Wheel}]}
    ELSE {s}

\* An exception: its Python type, which raise statement made it, and the
\* values its message is formatted from.
NoExc ==
    [type |-> "", what |-> "", status_code |-> 0, text |-> "", url |-> <<>>,
     max_retries |-> 0, state |-> ""]

\* msg = f"Fabric API request failed after {max_retries} attempts with status
\* code {response.status_code}: {response.text}. URL: {request_url}"
ApiError(response, url, max_retries) ==
    [NoExc EXCEPT !.type = "Exception", !.what = "api",
                  !.status_code = response.status_code, !.text = response.text,
                  !.url = url, !.max_retries = max_retries]

IncorrectResponseError == [NoExc EXCEPT !.type = "Exception", !.what = "incorrect_response"]
PublishFailedError(state) ==
    [NoExc EXCEPT !.type = "Exception", !.what = "publish_failed", !.state = state]
PublishTimeoutError == [NoExc EXCEPT !.type = "TimeoutError", !.what = "timeout"]
FileNotFound == [NoExc EXCEPT !.type = "FileNotFoundError", !.what = "open"]
AttributeErr == [NoExc EXCEPT !.type = "AttributeError", !.what = "json"]

\* What the function on top of the stack handed to its caller: nothing yet
\* (k = "none"), a value (k = "val", of Python type vt) or an exception.
NoRet ==
    [k |-> "none", vt |-> "", b |-> FALSE, s |-> "", body |-> EmptyBody, e |-> NoExc]
RetNone == [NoRet EXCEPT !.k = "val", !.vt = "None"]
RetBool(b) == [NoRet EXCEPT !.k = "val", !.vt = "bool", !.b = b]
RetStr(s) == [NoRet EXCEPT !.k = "val", !.vt = "str", !.s = s]
RetDict(body) == [NoRet EXCEPT !.k = "val", !.vt = "dict", !.body = body]
Raise(e) == [NoRet EXCEPT !.k = "exc", !.e = e]

\* ------------------------------------------------------------ the state
VARIABLES
    entry,      \* the call under study: the function called and its arguments
    stack,      \* the Python call stack, innermost frame last
    ret,        \* what the frame that just ended handed to its caller
    rpc,        \* run_wheel_deployment_to_fabric: the step in progress
    rq,         \* _fabric_api_request: arguments and locals of the current call
    wt,         \* the wait (and _is_fabric_environment_published): arguments, locals
    da,         \* _delete_..._published_custom_libraries: listing read, names still to delete
    file,       \* the artifact on disk and the handle the upload holds on it
    now,        \* the time truly elapsed, in seconds, followed while a wait is
                \* running
    skew,       \* what settings of the system clock have added to it so far:
                \* time.time() is now + skew.by
    slow,       \* the seconds the HTTP attempts of the current wait have taken
    clean,      \* whether every response so far had status 200
    tlog,       \* what the current transport call did: attempts, notices, sleeps
    calls,      \* every request whose first attempt was sent, in order, and
                \* whether it has been answered with status 200
    seen,       \* the publish states read so far, in order, a state read
                \* several times in a row kept once
    staging,    \* the remote's staging area: the artifacts it holds, known from
                \* the first listing on
    out         \* what was printed: counts by kind of notice

vars ==
    <<entry, stack, ret, rpc, rq, wt, da, file, now, skew, slow, clean, tlog, calls,
      seen, staging, out>>

Top == IF stack = <<>> THEN "" ELSE stack[Len(stack)]
InWait == \E i \in 1 .. Len(stack) : stack[i] = "wait"

\* Only the wait reads the clock (lines 299 and 304), so the model follows
\* the clock from a wait's entry to its end only, and only in a wait whose
\* timeout the polls followed can reach: one of at most MaxTimeoutArg
\* minutes.  (The waits of the run, of 40 minutes, end before time matters.)
ClockFollowed == InWait /\ wt.timeout_in_minutes <= MaxTimeoutArg

\* The clock after d more seconds.
ClockAfter(d) == IF ClockFollowed THEN now + d ELSE now
Pop(s) == SubSeq(s, 1, Len(s) - 1)

\* time.time(): the wall clock, which is the elapsed time plus whatever the
\* clock was set by.
\* back tells whether it was ever set backwards.
NoSkew == [by |-> 0, back |-> FALSE]
TimeTime == now + skew.by

\* By how much the system clock may be set during one sleep of a wait: it
\* is set once in a wait, if at all.
ClockJumps(k) ==
    IF ClockFollowed /\ k = NoSkew THEN {0, -MaxClockJump, MaxClockJump} ELSE {0}
SkewAfter(k, j) == [by |-> k.by + j, back |-> k.back \/ j < 0]

NoArgs ==
    [fn |-> "", allow_cancelled |-> FALSE, timeout_in_minutes |-> 0,
     max_retries |-> DefaultMaxRetries, path |-> <<>>, name |-> <<>>]

Entries ==
    {[NoArgs EXCEPT !.fn = f] : f \in {"run", "delete_all", "upload", "cancel", "publish"}}
    \cup {[NoArgs EXCEPT !.fn = "request", !.max_retries = m, !.path = p] :
            m \in -1 .. MaxRetriesArg, p \in DirectPaths}
    \cup {[NoArgs EXCEPT !.fn = "is_published", !.allow_cancelled = a] : a \in BOOLEAN}
    \cup {[NoArgs EXCEPT !.fn = "wait", !.allow_cancelled = a, !.timeout_in_minutes = t] :
            a \in BOOLEAN, t \in 0 .. MaxTimeoutArg}
    \cup {[NoArgs EXCEPT !.fn = "delete_one", !.name = n] : n \in LibNames}

IdleRq ==
    [method |-> "", url |-> <<>>, files |-> FALSE, headers |-> "", max_retries |-> 0,
     attempt |-> 0, pc |-> "idle", response |-> NoResponse]

\* _fabric_api_request, lines 95-102: the default headers unless the caller
\* gave some, the full URL, and the loop variable at its first value.
NewRequest(method, request_url, files, headers, max_retries) ==
    [method |-> method, url |-> FullUrl(request_url), files |-> files,
     headers |-> IF headers = "None" THEN "json+bearer" ELSE headers,
     max_retries |-> max_retries, attempt |-> 1, pc |-> "loop",
     response |-> NoResponse]

NoWait ==
    [allow_cancelled |-> FALSE, timeout_in_minutes |-> 0, start_time |-> 0,
     entered |-> 0, reads |-> 0, sleeps |-> 0, elapsed |-> 0, truly |-> 0]

NoDeleteAll == [listed |-> FALSE, libraries |-> EmptyBody, names |-> <<>>, todo |-> <<>>]

NoOut ==
    [cancelling |-> 0, waiting |-> 0, is_published |-> 0, published |-> 0,
     completed |-> 0, errors |-> 0, last_error |-> NoExc]

Init ==
    /\ entry \in [a : Entries, started : {FALSE}]
    /\ stack = <<>>
    /\ ret = NoRet
    /\ rpc = "idle"
    /\ rq = IdleRq
    /\ wt = NoWait
    /\ da = NoDeleteAll
    /\ file = [exists |-> TRUE, open |-> FALSE, opened |-> 0, closed |-> 0,
                pos |-> "start", short |-> 0]
    /\ now = 0
    /\ skew = NoSkew
    /\ slow = 0
    /\ clean = TRUE
    /\ tlog = <<>>
    /\ calls = <<>>
    /\ seen = <<>>
    /\ staging = NoStaging
    /\ out = NoOut

\* ------------------------------------------------------------ the calls
\* The frames a call of fn pushes down to its first transport call.
Chain(fn) ==
    CASE fn = "request" -> <<"request">>
      [] fn = "get_state" -> <<"get_state", "request">>
      [] fn = "is_published" -> <<"is_published", "get_state", "request">>
      [] fn = "wait" -> <<"wait", "is_published", "get_state", "request">>
      [] fn = "run" -> <<"run", "get_state", "request">>
      [] fn = "delete_all" -> <<"delete_all", "get_libs", "request">>
      [] fn = "delete_one" -> <<"delete_one", "request">>
      [] fn = "upload" -> <<"upload", "request">>
      [] fn = "cancel" -> <<"cancel", "request">>
      [] fn = "publish" -> <<"publish", "request">>

\* The transport call at the bottom of that chain.
FirstRequest(fn, a) ==
    CASE fn = "request" -> NewRequest("GET", a.path, FALSE, "None", a.max_retries)
      [] fn \in {"get_state", "is_published", "wait", "run"} ->
            NewRequest("GET", EnvironmentPath, FALSE, "None", DefaultMaxRetries)
      [] fn = "delete_all" ->
            NewRequest("GET", LibrariesPath, FALSE, "None", DefaultMaxRetries)
      [] fn = "delete_one" ->
            NewRequest("DELETE", DeletePath(a.name), FALSE, "None", DefaultMaxRetries)
      [] fn = "upload" ->
            NewRequest("POST", StagingLibrariesPath, TRUE, "explicit", DefaultMaxRetries)
      [] fn = "cancel" -> NewRequest("POST", CancelPath, FALSE, "None", DefaultMaxRetries)
      [] fn = "publish" -> NewRequest("POST", PublishPath, FALSE, "None", DefaultMaxRetries)

\* Whether the artifact path exists, for a call of fn: nothing but the
\* upload's open looks at it.
PathExists(fn) == IF fn = "upload" THEN BOOLEAN ELSE {TRUE}

\* The function on top of base calls fn(a): the frames are pushed and the
\* callee runs to its first transport call.  The upload opens the artifact
\* first (Path(file_path).open('rb'), exists telling whether the path is
\* there) and raises FileNotFoundError, with no frame of it left to unwind,
\* when the path does not exist.
Invoke(base, fn, a, exists) ==
    LET opened == fn # "upload" \/ exists IN
    /\ stack' = IF opened THEN base \o Chain(fn) ELSE base
    /\ ret' = IF opened THEN NoRet ELSE Raise(FileNotFound)
    /\ rq' = IF opened THEN FirstRequest(fn, a) ELSE IdleRq
    /\ tlog' = IF opened THEN <<>> ELSE tlog
    /\ file' = IF fn # "upload" THEN file
               ELSE IF opened THEN [file EXCEPT !.open = TRUE, !.opened = @ + 1,
                                                !.pos = "start"]
               ELSE [file EXCEPT !.exists = FALSE]

\* _wait_until_fabric_environment_publish_finished at entry: start_time =
\* time.time(), and the first _is_fabric_environment_published call begins.
\* entered is the elapsed time at entry; elapsed and truly are what the last
\* timeout test computed (time.time() - start_time) and the time that had
\* truly elapsed since entry at that test.
NewWait(allow_cancelled, timeout_in_minutes) ==
    [allow_cancelled |-> allow_cancelled, timeout_in_minutes |-> timeout_in_minutes,
     start_time |-> TimeTime, entered |-> now, reads |-> 1, sleeps |-> 0,
     elapsed |-> 0, truly |-> 0]

\* A wait that has returned: its arguments, for the record; its locals are
\* gone with its frame.
Left(w) ==
    [NoWait EXCEPT !.allow_cancelled = w.allow_cancelled,
                   !.timeout_in_minutes = w.timeout_in_minutes]

\* The call under study begins.
Enter ==
    /\ ~entry.started
    /\ entry' = [entry EXCEPT !.started = TRUE]
    /\ rpc' = IF entry.a.fn = "run" THEN "state" ELSE rpc
    /\ wt' = CASE entry.a.fn = "wait" ->
                    NewWait(entry.a.allow_cancelled, entry.a.timeout_in_minutes)
               [] entry.a.fn = "is_published" ->
                    [NoWait EXCEPT !.allow_cancelled = entry.a.allow_cancelled]
               [] OTHER -> wt
    /\ \E exists \in PathExists(entry.a.fn) : Invoke(<<>>, entry.a.fn, entry.a, exists)
    /\ UNCHANGED <<skew, staging, slow, clean, da, now, calls, seen, out>>

\* -------------------------------------------------------- the transport
\* requests.request(..., files=files) builds the multipart body by reading
\* the handle given in files from its current position to the end: the
\* handle is left at end-of-file, and an attempt that found it there sent
\* none of the contents (file.short counts those attempts).
FileAfterAttempt(f, files) ==
    IF ~files THEN f
    ELSE [f EXCEPT !.pos = "end",
                   !.short = IF f.pos = "end" THEN @ + 1 ELSE @]

\* for attempt in range(1, max_retries + 1): whether the body runs.
InRange(attempt, max_retries) == attempt <= max_retries

\* A variant with the retry test off by one (attempt <= max_retries).
AttemptOutcome_SleepAfterLast(response, attempt, max_retries) ==
    IF response.status_code = HttpOk THEN "return"
    ELSE IF attempt <= max_retries THEN "retry"
    ELSE "raise"

\* A variant that tests for the 200 only once the attempts are used up.
AttemptOutcome_LateReturn(response, attempt, max_retries) ==
    IF attempt < max_retries THEN "retry"
    ELSE IF response.status_code = HttpOk THEN "return"
    ELSE "raise"

\* Lines 109-119: what one response does to the loop.
AttemptOutcome(response, attempt, max_retries) ==
    IF response.status_code = HttpOk THEN "return"
    ELSE IF attempt < max_retries THEN "retry"
    ELSE "raise"

\* response.json() of a requests.Response.
JsonOf(response) == response.body

\* The exception of lines 116-119, from the response in hand.
FinalError(response, request_url, max_retries) ==
    ApiError(response, request_url, max_retries)

\* One pass of the loop body up to the sleep: requests.request(...) and the
\* test of its status code.
FabricApiRequestAttempt ==
    /\ Top = "request" /\ ret.k = "none" /\ rq.pc = "loop"
    /\ InRange(rq.attempt, rq.max_retries)
    /\ \E response \in ResponsesTo(rq.method, rq.url),
          d \in IF ClockFollowed THEN 0 .. MaxLatency - slow ELSE {0} :
        LET o == AttemptOutcome(response, rq.attempt, rq.max_retries) IN
        /\ staging' \in StagingAfter(staging, rq.method, rq.url, response)
        /\ file' = FileAfterAttempt(file, rq.files)
        /\ now' = ClockAfter(d)
        /\ slow' = slow + d
        /\ clean' = (clean /\ response.status_code = HttpOk)
        /\ tlog' = Append(tlog, [ev |-> "request", attempt |-> rq.attempt,
                                 response |-> response])
        /\ calls' = IF rq.attempt = 1
                      THEN Append(calls, [method |-> rq.method, url |-> rq.url,
                                          ok |-> o = "return"])
                      ELSE [calls EXCEPT ![Len(calls)].ok = (o = "return")]
        /\ rq' = IF o = "retry" THEN [rq EXCEPT !.pc = "retry", !.response = response]
                 ELSE IdleRq
        /\ stack' = IF o = "retry" THEN stack ELSE Pop(stack)
        /\ ret' = CASE o = "return" -> RetDict(JsonOf(response))
                    [] o = "retry" -> ret
                    [] o = "raise" ->
                         Raise(FinalError(response, rq.url, rq.max_retries))
    /\ UNCHANGED <<skew, entry, rpc, wt, da, seen, out>>

\* Lines 111-114: the retry notice, the 3-second sleep, the next attempt.
FabricApiRequestRetry ==
    /\ Top = "request" /\ ret.k = "none" /\ rq.pc = "retry"
    /\ tlog' = tlog \o <<[ev |-> "notice", attempt |-> rq.attempt, response |-> NoResponse],
                         [ev |-> "sleep", attempt |-> rq.attempt, response |-> NoResponse]>>
    /\ now' = ClockAfter(RetrySleepSeconds)
    /\ rq' = [rq EXCEPT !.pc = "loop", !.attempt = @ + 1]
    /\ UNCHANGED <<skew, staging, slow, clean, entry, stack, ret, rpc, wt, da, file, calls, seen, out>>

\* Line 120: the loop ended without a return or a raise; return None.
FabricApiRequestFallThrough ==
    /\ Top = "request" /\ ret.k = "none" /\ rq.pc = "loop"
    /\ ~InRange(rq.attempt, rq.max_retries)
    /\ ret' = RetNone
    /\ stack' = Pop(stack)
    /\ rq' = IdleRq
    /\ UNCHANGED <<skew, staging, slow, clean, entry, rpc, wt, da, file, now, tlog, calls, seen, out>>

\* ------------------------------------------------ the resource operations
Observe(q, state) ==
    IF q # <<>> /\ q[Len(q)] = state THEN q ELSE Append(q, state)

\* environment_details["properties"]["publishDetails"]["state"], or the
\* Exception raised from the KeyError.
GetFabricEnvironmentState ==
    /\ Top = "get_state" /\ ret.k = "val"
    /\ stack' = Pop(stack)
    /\ ret' = IF ret.body.hasState THEN RetStr(ret.body.state)
              ELSE Raise(IncorrectResponseError)
    /\ seen' = IF ret.body.hasState THEN Observe(seen, ret.body.state) ELSE seen
    /\ UNCHANGED <<skew, staging, slow, clean, entry, rpc, rq, wt, da, file, now, tlog, calls, out>>

\* return _fabric_api_request(...): the listing and the single delete hand
\* the transport's result on unchanged.
ReturnTransportResult ==
    /\ Top \in {"get_libs", "delete_one"} /\ ret.k = "val"
    /\ stack' = Pop(stack)
    /\ UNCHANGED <<skew, staging, slow, clean, entry, ret, rpc, rq, wt, da, file, now, tlog, calls, seen, out>>

\* A variant that goes through the listing backwards.
WheelFilesOf_Reversed(libraries) ==
    IF libraries.hasCL /\ libraries.hasWF
        THEN [i \in 1 .. Len(libraries.wheelFiles) |->
                libraries.wheelFiles[Len(libraries.wheelFiles) + 1 - i]]
        ELSE <<>>

\* Line 201-202: the names to delete, none when the listing lacks
\* customLibraries or customLibraries.wheelFiles.
WheelFilesOf(libraries) ==
    IF libraries.hasCL /\ libraries.hasWF THEN libraries.wheelFiles ELSE <<>>

\* The loop of lines 202-204, entered with the listing and re-entered after
\* each delete: delete the next name, or return None when none is left.
\* da.libraries is the listing as returned, da.names the names it gave.
DeleteFabricEnvironmentPublishedCustomLibraries ==
    /\ Top = "delete_all" /\ ret.k = "val"
    /\ LET libraries == IF da.listed THEN da.libraries ELSE ret.body
           listing == IF da.listed THEN da.names ELSE WheelFilesOf(libraries)
           names == IF da.listed THEN da.todo ELSE listing
       IN
        IF names = <<>>
        THEN /\ stack' = Pop(stack)
             /\ ret' = RetNone
             /\ da' = [listed |-> TRUE, libraries |-> libraries, names |-> listing,
                       todo |-> <<>>]
             /\ UNCHANGED <<rq, tlog, file>>
        ELSE /\ da' = [listed |-> TRUE, libraries |-> libraries, names |-> listing,
                       todo |-> Tail(names)]
             /\ Invoke(stack, "delete_one", [NoArgs EXCEPT !.name = Head(names)], TRUE)
    /\ UNCHANGED <<skew, staging, slow, clean, entry, rpc, wt, now, calls, seen, out>>

\* _cancel_fabric_environment_publish: the POST's result is dropped.
CancelFabricEnvironmentPublish ==
    /\ Top = "cancel" /\ ret.k = "val"
    /\ stack' = Pop(stack)
    /\ ret' = RetNone
    /\ UNCHANGED <<skew, staging, slow, clean, entry, rpc, rq, wt, da, file, now, tlog, calls, seen, out>>

\* _publish_fabric_environment: the POST's result is dropped, the notice
\* is printed.
PublishFabricEnvironment ==
    /\ Top = "publish" /\ ret.k = "val"
    /\ stack' = Pop(stack)
    /\ ret' = RetNone
    /\ out' = [out EXCEPT !.published = @ + 1]
    /\ UNCHANGED <<skew, staging, slow, clean, entry, rpc, rq, wt, da, file, now, tlog, calls, seen>>

\* obj.json() for a Python object: a requests.Response decodes its body;
\* a dict and None have no attribute json.
HasJsonMethod(r) == r.vt = "Response"

\* Line 195, return response.json(), on what the transport returned, and
\* the end of the with block, which closes the handle either way.
UploadFabricEnvironmentCustomLibrary ==
    /\ Top = "upload" /\ ret.k = "val"
    /\ stack' = Pop(stack)
    /\ ret' = IF HasJsonMethod(ret) THEN RetDict(ret.body) ELSE Raise(AttributeErr)
    /\ file' = [file EXCEPT !.open = FALSE, !.closed = @ + 1]
    /\ UNCHANGED <<skew, staging, slow, clean, entry, rpc, rq, wt, da, now, tlog, calls, seen, out>>

\* ------------------------------------------------ the lifecycle controller
\* A variant that takes Success for a state in progress.
IsPublishedOutcome_SuccessPending(state, allow_cancelled) ==
    IF state = "Failed" \/ (~allow_cancelled /\ state = "Cancelled") THEN "raise"
    ELSE "false"

\* A variant that drops the allow_cancelled test of line 271.
IsPublishedOutcome_NoAllow(state, allow_cancelled) ==
    IF state = "Success" THEN "true"
    ELSE IF state = "Failed" \/ state = "Cancelled" THEN "raise"
    ELSE "false"

\* Lines 268-276 on the state just read: "true", "false" or "raise".
IsPublishedOutcome(state, allow_cancelled) ==
    IF state = "Success" THEN "true"
    ELSE IF state = "Failed" \/ (~allow_cancelled /\ state = "Cancelled") THEN "raise"
    ELSE "false"

IsFabricEnvironmentPublished ==
    /\ Top = "is_published" /\ ret.k = "val"
    /\ stack' = Pop(stack)
    /\ LET o == IsPublishedOutcome(ret.s, wt.allow_cancelled) IN
        ret' = CASE o = "true" -> RetBool(TRUE)
                 [] o = "false" -> RetBool(FALSE)
                 [] o = "raise" -> Raise(PublishFailedError(ret.s))
    /\ UNCHANGED <<skew, staging, slow, clean, entry, rpc, rq, wt, da, file, now, tlog, calls, seen, out>>

\* A variant whose timeout test is not strict.
TimedOut_NotStrict(t, start_time, timeout_in_minutes) ==
    t - start_time >= timeout_in_minutes * SecondsPerMinute

\* A variant that never times out.
TimedOut_Never(t, start_time, timeout_in_minutes) == FALSE

\* Line 304: time.time() - start_time > timeout_in_minutes * 60.
TimedOut(t, start_time, timeout_in_minutes) ==
    t - start_time > timeout_in_minutes * SecondsPerMinute

\* A variant that tests the timeout before the result of the check.
WaitOutcome_TimeoutFirst(published, t, start_time, timeout_in_minutes) ==
    IF TimedOut(t, start_time, timeout_in_minutes) THEN "raise"
    ELSE IF published THEN "return"
    ELSE "sleep"

\* Lines 301-310: what one pass of the loop does once the check returned
\* published, at time t.
WaitOutcome(published, t, start_time, timeout_in_minutes) ==
    IF published THEN "return"
    ELSE IF TimedOut(t, start_time, timeout_in_minutes) THEN "raise"
    ELSE "sleep"

\* The most state reads of one wait the model follows.  A wait whose clock
\* is followed: one more than it can make at one read per 30 seconds within
\* its timeout.  A wait of the run, whose timeout lies beyond the clock
\* followed: MaxPolls.
PollCap(timeout_in_minutes) ==
    IF timeout_in_minutes <= MaxTimeoutArg
        THEN (timeout_in_minutes * SecondsPerMinute) \div PollSleepSeconds + 3
        ELSE MaxPolls

\* One pass of the while loop after the check returned: return True, raise
\* TimeoutError, or print, sleep 30 seconds and check again.
WaitUntilFabricEnvironmentPublishFinished ==
    /\ Top = "wait" /\ ret.k = "val"
    /\ LET o == WaitOutcome(ret.b, TimeTime, wt.start_time, wt.timeout_in_minutes)
           tested == IF ret.b THEN wt
                     ELSE [wt EXCEPT !.elapsed = TimeTime - wt.start_time,
                                     !.truly = now - wt.entered]
       IN
        CASE o = "return" ->
                /\ stack' = Pop(stack)
                /\ ret' = RetBool(TRUE)
                /\ out' = [out EXCEPT !.is_published = @ + 1]
                /\ UNCHANGED <<rq, tlog, file, now, wt, skew>>
          [] o = "raise" ->
                /\ stack' = Pop(stack)
                /\ ret' = Raise(PublishTimeoutError)
                /\ wt' = tested
                /\ UNCHANGED <<rq, tlog, file, now, out, skew>>
          [] o = "sleep" ->
                /\ wt.reads < PollCap(wt.timeout_in_minutes)
                /\ out' = [out EXCEPT !.waiting = @ + 1]
                /\ now' = ClockAfter(PollSleepSeconds)
                /\ \E j \in ClockJumps(skew) : skew' = SkewAfter(skew, j)
                /\ wt' = [tested EXCEPT !.sleeps = @ + 1, !.reads = @ + 1]
                /\ Invoke(stack, "is_published", NoArgs, TRUE)
    /\ UNCHANGED <<staging, slow, clean, entry, rpc, da, calls, seen>>

\* A variant without the wait of lines 336-337 after the cancel.
RunAfter_NoWaitAfterCancel(step, r) ==
    CASE step = "state" -> IF r.s # "Success" THEN "cancel" ELSE "delete_all"
      [] step = "cancel" -> "delete_all"
      [] step = "wait_cancelled" -> "delete_all"
      [] step = "delete_all" -> "upload"
      [] step = "upload" -> "publish"
      [] step = "publish" -> "wait_published"
      [] step = "wait_published" -> "done"

\* run_wheel_deployment_to_fabric: the step that follows the one that just
\* returned r.
RunAfter(step, r) ==
    CASE step = "state" -> IF r.s # "Success" THEN "cancel" ELSE "delete_all"
      [] step = "cancel" -> "wait_cancelled"
      [] step = "wait_cancelled" -> "delete_all"
      [] step = "delete_all" -> "upload"
      [] step = "upload" -> "publish"
      [] step = "publish" -> "wait_published"
      [] step = "wait_published" -> "done"

\* The function a step calls.
StepFn(step) ==
    IF step \in {"wait_cancelled", "wait_published"} THEN "wait" ELSE step

\* allow_cancelled of the wait a step makes: True at line 337, the default
\* False at line 347.
StepAllowCancelled(step) == step = "wait_cancelled"

\* The try block, one statement at a time: the callee returned, the next
\* call is made; after the last wait the completion notice is printed and
\* the function returns.  rpc stays at the step an exception came from.
\* No wait is running between two steps: the clock is back at its origin,
\* with nothing added to it.
\* Whether the artifact exists is settled when the upload opens it.
RunWheelDeploymentToFabric ==
    /\ Top = "run" /\ ret.k = "val"
    /\ LET next == RunAfter(rpc, ret) IN
        /\ rpc' = next
        /\ out' = [out EXCEPT
                !.cancelling = IF next = "cancel" THEN @ + 1 ELSE @,
                !.completed = IF next = "done" THEN @ + 1 ELSE @]
        /\ IF next = "done"
           THEN /\ stack' = Pop(stack)
                /\ ret' = RetNone
                /\ wt' = Left(wt)
                /\ UNCHANGED <<rq, tlog, file>>
           ELSE /\ wt' = IF StepFn(next) = "wait"
                           THEN NewWait(StepAllowCancelled(next), DefaultTimeoutMinutes)
                           ELSE Left(wt)
                /\ \E exists \in PathExists(StepFn(next)) :
                        Invoke(stack, StepFn(next), NoArgs, exists)
    /\ now' = 0
    /\ skew' = NoSkew
    /\ slow' = 0
    /\ UNCHANGED <<staging, clean, entry, da, calls, seen>>

\* A variant whose except clause prints nothing.
ExceptClause_Silent(frame, o, e) == [out |-> o, raised |-> e]

\* Lines 352-354, for the frame an exception passes through: the run prints
\* the error and raises it again (raise e); every other frame has no
\* handler and lets it through.
ExceptClause(frame, o, e) ==
    [out |-> IF frame = "run"
               THEN [o EXCEPT !.errors = @ + 1, !.last_error = e]
               ELSE o,
     raised |-> e]

\* An exception leaves the frame on top of the stack: the with block of the
\* upload closes the handle; the except clause of the run prints the error
\* and raises it again; every other frame has no handler for it.
PropagateException ==
    /\ stack # <<>> /\ ret.k = "exc"
    /\ stack' = Pop(stack)
    /\ file' = IF Top = "upload"
                 THEN [file EXCEPT !.open = FALSE, !.closed = @ + 1]
                 ELSE file
    /\ out' = ExceptClause(Top, out, ret.e).out
    /\ ret' = Raise(ExceptClause(Top, out, ret.e).raised)
    /\ rq' = IdleRq
    /\ UNCHANGED <<skew, staging, slow, clean, entry, rpc, wt, da, now, tlog, calls, seen>>

Next ==
    \/ Enter
    \/ FabricApiRequestAttempt
    \/ FabricApiRequestRetry
    \/ FabricApiRequestFallThrough
    \/ GetFabricEnvironmentState
    \/ ReturnTransportResult
    \/ DeleteFabricEnvironmentPublishedCustomLibraries
    \/ CancelFabricEnvironmentPublish
    \/ PublishFabricEnvironment
    \/ UploadFabricEnvironmentCustomLibrary
    \/ IsFabricEnvironmentPublished
    \/ WaitUntilFabricEnvironmentPublishFinished
    \/ RunWheelDeploymentToFabric
    \/ PropagateException

Spec == Init /\ [][Next]_vars

\* The program is one sequential thread that runs until it ends: a step
\* that can be taken is taken.
LiveSpec == Spec /\ WF_vars(Next)

\* ------------------------------------------------------------ vocabulary
Fn == entry.a.fn
Done == entry.started /\ stack = <<>>
Returned == Done /\ ret.k = "val"
Raised == Done /\ ret.k = "exc"
Last(q) == q[Len(q)]

\* The kind of a request, from its method and URL.
Kind(c) ==
    CASE c.method = "GET" /\ c.url = FullUrl(EnvironmentPath) -> "state"
      [] c.method = "GET" /\ c.url = FullUrl(LibrariesPath) -> "list"
      [] c.method = "DELETE" -> "delete"
      [] c.method = "POST" /\ c.url = FullUrl(StagingLibrariesPath) -> "upload"
      [] c.method = "POST" /\ c.url = FullUrl(CancelPath) -> "cancel"
      [] c.method = "POST" /\ c.url = FullUrl(PublishPath) -> "publish"
      [] OTHER -> "other"

Kinds == [i \in 1 .. Len(calls) |-> Kind(calls[i])]
Issued(k) == \E i \in 1 .. Len(calls) : Kinds[i] = k
FirstPos(k) == CHOOSE i \in 1 .. Len(calls) :
                    Kinds[i] = k /\ \A j \in 1 .. i - 1 : Kinds[j] # k
Sent(c) == [method |-> c.method, url |-> c.url]
SentOfKind(k) ==
    LET q == SelectSeq(calls, LAMBDA c : Kind(c) = k)
    IN  [i \in 1 .. Len(q) |-> Sent(q[i])]

\* The delete requests a listing of names implies, in listing order.
DeletesFor(names) ==
    [i \in 1 .. Len(names) |->
        [method |-> "DELETE", url |-> FullUrl(DeletePath(names[i]))]]

\* The events of the current transport call that are HTTP attempts.
Attempts == SelectSeq(tlog, LAMBDA ev : ev.ev = "request")

\* tlog is n attempts with a notice and a sleep between each two of them
\* and nothing after the last.
RetryShape(n) ==
    /\ Len(tlog) = 3 * n - 2
    /\ \A i \in 1 .. Len(tlog) :
        tlog[i].ev = CASE i % 3 = 1 -> "request"
                       [] i % 3 = 2 -> "notice"
                       [] OTHER -> "sleep"
    /\ \A i \in 1 .. n : tlog[3 * i - 2].attempt = i

\* ---------------------------------------------------------------- C3
\* C3 as stated: after _is_fabric_environment_published read a state, it
\* returned True iff the state is Success, returned False iff the state is
\* none of Success, Failed, Cancelled, and raised iff the state is Failed, or
\* Cancelled with allow_cancelled false.
IsPublishedCallEnded == Fn = "is_published" /\ Done /\ seen # <<>>

ReadsAnswered == Cardinality({p \in 1 .. Len(calls) : Kinds[p] = "state" /\ calls[p].ok})

C4_CancelledEndsAllowedWait ==
    (Fn = "wait" /\ entry.a.allow_cancelled /\ seen # <<>> /\ Last(seen) = "Cancelled") =>
        /\ wt.sleeps < ReadsAnswered
        /\ Done => ret = RetBool(TRUE)

\* ---------------------------------------------------------------- C2
\* C2: whenever the upload POST was answered with HTTP 200, the upload
\* returned normally: no error came out of it.
UploadAnswered200 ==
    /\ calls # <<>> /\ Kind(Last(calls)) = "upload"
    /\ tlog # <<>> /\ Last(tlog).ev = "request"
    /\ Last(tlog).response.status_code = HttpOk
    /\ Top \in {"", "run"}

C2_UploadDecodesOnce == UploadAnswered200 => ret.k = "val"

\* ---------------------------------------------------------------- C9
\* C9: a call of _fabric_api_request, whatever max_retries is, returns
\* normally only if one of its attempts was answered with HTTP 200.
C9_ReturnsOnlyAfter200 ==
    (Fn = "request" /\ Returned) =>
        \E i \in 1 .. Len(tlog) :
            tlog[i].ev = "request" /\ tlog[i].response.status_code = HttpOk

\* --------------------------------------------------------------- C10
\* C10: when FileNotFoundError is raised for the artifact, no request has
\* been issued to the remote API, by the upload or by the run around it.
C10_NoRequestBeforeFileNotFound ==
    (ret.k = "exc" /\ ret.e = FileNotFound) => calls = <<>>

\* ---------------------------------------------------------------- C7
\* C7: a transport call with max_retries >= 1 whose responses are all
\* non-200 makes exactly max_retries attempts with a notice and a sleep
\* between each two of them and none after the last, and then raises an
\* error carrying the status code and the text of the last response and the
\* full URL.
AllAttemptsFailed ==
    \A i \in 1 .. Len(tlog) :
        tlog[i].ev = "request" => tlog[i].response.status_code # HttpOk

C7_ExhaustedRetries ==
    /\ (ret.k = "exc" /\ ret.e.what = "api") =>
            /\ ret.e.max_retries >= 1
            /\ RetryShape(ret.e.max_retries)
            /\ AllAttemptsFailed
            /\ ret.e.status_code = Last(tlog).response.status_code
            /\ ret.e.text = Last(tlog).response.text
            /\ ret.e.url = Last(calls).url
    /\ (Fn = "request" /\ Done /\ entry.a.max_retries >= 1 /\ AllAttemptsFailed) =>
            /\ ret.k = "exc" /\ ret.e.what = "api"
            /\ ret.e.max_retries = entry.a.max_retries
            /\ ret.e.url = ApiBase \o <<"p">>

C7_Witness ==
    /\ Fn = "request" /\ Raised
    /\ entry.a.max_retries = 3
    /\ entry.a.path = <<"/", "p">>
    /\ Len(Attempts) = 3
    /\ Attempts[1].response.status_code # Attempts[3].response.status_code
    /\ ret.e.status_code = Attempts[3].response.status_code

\* ---------------------------------------------------------------- C8
\* C8: when the k-th response of a transport call is the first with status
\* 200 (k <= max_retries), the call makes exactly k attempts and k-1 sleeps,
\* makes no attempt after the 200, and returns the decoded body of that
\* response.
TransportJustReturned ==
    /\ ret.k = "val" /\ ret.vt = "dict"
    /\ \/ Top \in {"get_state", "get_libs", "delete_one", "upload", "cancel", "publish"}
       \/ Fn = "request" /\ Done

C8_ReturnsAtFirst200 ==
    /\ \A i \in 1 .. Len(tlog) :
        (tlog[i].ev = "request" /\ tlog[i].response.status_code = HttpOk) =>
            /\ i = Len(tlog)
            /\ RetryShape(Len(Attempts))
            /\ Top # "request"
            /\ (Fn = "request" /\ Done) => ret = RetDict(tlog[i].response.body)
    /\ TransportJustReturned =>
            /\ tlog # <<>>
            /\ Last(tlog).ev = "request"
            /\ Last(tlog).response.status_code = HttpOk
            /\ ret = RetDict(Last(tlog).response.body)
            /\ Len(Attempts) <= (IF Fn = "request" THEN entry.a.max_retries
                                 ELSE DefaultMaxRetries)

C8_Witness ==
    /\ Top = "get_state" /\ ret.k = "val"
    /\ Len(Attempts) = 3
    /\ Len(tlog) = 7
    /\ ret.body.hasState /\ ret.body.state = "Running"

\* ---------------------------------------------------------------- C6
\* C6: in run_wheel_deployment_to_fabric no delete or upload request is
\* issued before the first state read returned Success or the cancel and the
\* wait after it returned True; the upload is issued only after the listing
\* and every delete it implies were answered with 200; the publish request
\* only after the upload returned; the completion notice only after the
\* final wait (allow_cancelled false) returned True.
AllAnswered200Before(p) == \A i \in 1 .. p - 1 : calls[i].ok

C6_StepsInOrder ==
    Fn = "run" =>
        /\ calls # <<>> => Kinds[1] = "state"
        /\ (Issued("list") \/ Issued("delete") \/ Issued("upload")) =>
            /\ seen # <<>>
            /\ \/ seen[1] = "Success" /\ ~Issued("cancel")
               \/ /\ seen[1] # "Success"
                  /\ Kinds[2] = "cancel" /\ calls[2].ok
                  /\ out.is_published >= 1
                  /\ \E i \in 2 .. Len(seen) : seen[i] = "Success"
                  /\ Len(calls) >= 4
                  /\ \E p \in 3 .. Len(calls) - 1 :
                        /\ \A i \in 3 .. p : Kinds[i] = "state" /\ calls[i].ok
                        /\ Kinds[p + 1] = "list"
        /\ Issued("delete") =>
            /\ Issued("list")
            /\ \A i \in 1 .. Len(calls) : Kinds[i] = "delete" => FirstPos("list") < i
        /\ Issued("upload") =>
            /\ Issued("list")
            /\ da.listed /\ da.todo = <<>>
            /\ SentOfKind("delete") = DeletesFor(da.names)
            /\ \A i \in 1 .. Len(calls) :
                    Kinds[i] \in {"list", "delete"} => i < FirstPos("upload")
            /\ AllAnswered200Before(FirstPos("upload"))
        /\ Issued("publish") =>
            /\ Issued("upload")
            /\ FirstPos("upload") < FirstPos("publish")
            /\ AllAnswered200Before(FirstPos("publish"))
            /\ rpc \in {"publish", "wait_published", "done"}
        /\ out.completed >= 1 =>
            /\ rpc = "done"
            /\ Issued("publish")
            /\ ~wt.allow_cancelled
            /\ Last(seen) = "Success"
            /\ Kind(Last(calls)) = "state"

C6_Witness ==
    /\ Fn = "run"
    /\ seen # <<>> /\ seen[1] = "Running"
    /\ Issued("cancel")
    /\ Len(da.names) = 2
    /\ Issued("upload")
    /\ Kind(Last(calls)) = "upload"
    /\ Len(SentOfKind("delete")) = 2

\* ---------------------------------------------------------------- C1
\* The order of requests the scenario names: state read, cancelPublish,
\* state polls, listing, deletes, upload, publish, state polls.  Follow gives
\* the place reached in that order, or "bad" when a request is out of it.
OrderStep(q, k) ==
    CASE q = "start" /\ k = "state" -> "read"
      [] q = "read" /\ k = "cancel" -> "cancelled"
      [] q \in {"cancelled", "settling"} /\ k = "state" -> "settling"
      [] q = "settling" /\ k = "list" -> "cleaning"
      [] q = "cleaning" /\ k = "delete" -> "cleaning"
      [] q = "cleaning" /\ k = "upload" -> "uploaded"
      [] q = "uploaded" /\ k = "publish" -> "publishing"
      [] q \in {"publishing", "polling"} /\ k = "state" -> "polling"
      [] OTHER -> "bad"

RECURSIVE Follow(_, _)
Follow(q, ks) == IF ks = <<>> THEN q ELSE Follow(OrderStep(q, Head(ks)), Tail(ks))

BeforePublish(p) == ~Issued("publish") \/ p < FirstPos("publish")
StateReadsIssued == Cardinality({p \in 1 .. Len(calls) : Kinds[p] = "state"})
StateReadsIssuedBeforePublish ==
    Cardinality({p \in 1 .. Len(calls) : Kinds[p] = "state" /\ BeforePublish(p)})

\* The run so far is one of the scenario: every response had status 200
\* and every state read gave a state, the artifact was there, the first
\* state read was Running, the later ones before the publish Cancelled, and
\* those after the publish in progress and then Success.  (After the
\* publish, seen tells the reads before it from those after it only when one
\* poll was made before it, which is what the claim says of the scenario.)
C1_Scenario ==
    /\ Fn = "run" /\ entry.started
    /\ clean
    /\ ~(ret.k = "exc" /\ ret.e.what \in {"incorrect_response", "open"})
    /\ IF ~Issued("publish")
       THEN seen \in {<<>>, <<"Running">>, <<"Running", "Cancelled">>}
       ELSE /\ StateReadsIssuedBeforePublish = 2
            /\ seen \in {<<"Running", "Cancelled">> \o tail :
                            tail \in {<<>>, <<"Running">>, <<"Success">>,
                                      <<"Running", "Success">>}}

\* C1: in the scenario the requests are issued in exactly the order above,
\* the polls after the cancel stop at the first read of Cancelled, one
\* delete is issued per listed wheel file, the polls after the publish stop
\* at the first read of Success, and the run returns without error.
C1_EndToEndScenario ==
    C1_Scenario =>
        /\ Follow("start", Kinds) # "bad"
        /\ (~Issued("publish") /\ Len(seen) = 2) => StateReadsIssued <= 2
        /\ (Issued("publish") /\ Last(seen) = "Success") =>
                \A p \in 1 .. Len(calls) - 1 : Kinds[p] = "state" => calls[p].ok
        /\ Issued("upload") => SentOfKind("delete") = DeletesFor(da.names)
        /\ ret.k # "exc"
        /\ Done => /\ ret = RetNone
                   /\ Follow("start", Kinds) = "polling"
                   /\ Last(seen) = "Success"
                   /\ out.completed = 1

\* ---------------------------------------------------------------- C5
\* C5: the run issues cancelPublish iff the first state read is not
\* Success; after the cancel it waits with allow_cancelled=true; and once a
\* read of that wait has observed a terminal state (Success, Failed or
\* Cancelled) the run does not end in that wait: it goes on to the listing.
C5_CancelWaitThenCleanup ==
    Fn = "run" =>
        /\ Issued("cancel") => (seen # <<>> /\ seen[1] # "Success")
        /\ Len(calls) >= 2 =>
            /\ seen # <<>>
            /\ Kinds[2] = (IF seen[1] # "Success" THEN "cancel" ELSE "list")
        /\ rpc = "wait_cancelled" =>
            /\ wt.allow_cancelled
            /\ Done => /\ ret.e.what # "publish_failed"
                       /\ ~(ret.e.what = "timeout" /\ Last(seen) = "Cancelled")

StepKinds(step) ==
    CASE step \in {"state", "wait_cancelled", "wait_published"} -> {"state"}
      [] step = "cancel" -> {"cancel"}
      [] step = "delete_all" -> {"list", "delete"}
      [] step = "upload" -> {"upload"}
      [] step = "publish" -> {"publish"}
      [] OTHER -> {}

StepErrors(step) ==
    CASE step = "state" -> {"api", "incorrect_response"}
      [] step \in {"wait_cancelled", "wait_published"} ->
            {"api", "incorrect_response", "publish_failed", "timeout"}
      [] step = "upload" -> {"api", "open", "json"}
      [] step \in {"cancel", "delete_all", "publish"} -> {"api"}
      [] OTHER -> {}

\* The exception in flight is the one its raise statement made, from the
\* values at hand there.
SameAsRaised(e) ==
    CASE e.what = "api" ->
            e = ApiError(Last(tlog).response, Last(calls).url, DefaultMaxRetries)
      [] e.what = "incorrect_response" -> e = IncorrectResponseError
      [] e.what = "publish_failed" -> e = PublishFailedError(Last(seen))
      [] e.what = "timeout" -> e = PublishTimeoutError
      [] e.what = "open" -> e = FileNotFound
      [] e.what = "json" -> e = AttributeErr
      [] OTHER -> FALSE

\* C12: a failure raised by a step of the run is printed exactly once, when
\* it leaves the run, and the run ends with that same error; the step it
\* came from is the last to have issued a request (none is issued by a later
\* step) and the completion notice is not printed.  Nothing is printed as
\* an error while no failure has left the run.
C12_FailureLoggedOnceAndReraised ==
    Fn = "run" =>
        /\ out.errors = (IF Raised THEN 1 ELSE 0)
        /\ ret.k = "exc" =>
            /\ ret.e.what \in StepErrors(rpc)
            /\ SameAsRaised(ret.e)
            /\ IF ret.e.what = "open" THEN ~Issued("upload")
               ELSE Kind(Last(calls)) \in StepKinds(rpc)
            /\ out.completed = 0
        /\ Raised => out.last_error = ret.e

C12_Witness ==
    /\ Fn = "run" /\ Raised
    /\ rpc = "delete_all"
    /\ Len(SentOfKind("delete")) = 2
    /\ ret.e.what = "api" /\ ret.e.status_code = 500
    /\ out.errors = 1 /\ out.last_error = ret.e

\* --------------------------------------------------------------- C13
\* A direct wait with timeout_in_minutes = 0 that has read nothing but
\* Running.
ZeroTimeoutWait ==
    Fn = "wait" /\ entry.a.timeout_in_minutes = 0 /\ seen = <<"Running">>

\* C13 as stated: such a wait makes one state read and no poll sleep, and
\* ends in an error, however much time (none included) passed between its
\* entry and the timeout test.
C13_ZeroTimeoutRaisesAtFirstCheck ==
    ZeroTimeoutWait =>
        /\ wt.sleeps = 0 /\ out.waiting = 0
        /\ StateReadsIssued = 1
        /\ Done => ret.k = "exc"

\* C13 amended: such a wait raises TimeoutError at its first timeout test,
\* after one state read and no sleep, exactly when some time has passed
\* between entry and that test; when none has, it sleeps once.
C13_ZeroTimeoutRaisesOnceTimePassed ==
    ZeroTimeoutWait =>
        /\ (wt.sleeps = 0 /\ ret = Raise(PublishTimeoutError)) =>
                /\ wt.elapsed > 0
                /\ StateReadsIssued = 1 /\ out.waiting = 0
        /\ (wt.sleeps = 0 /\ wt.elapsed > 0) => ret = Raise(PublishTimeoutError)
        /\ (wt.sleeps = 1 /\ ~Done) => wt.elapsed = 0

C13_Witness ==
    /\ ZeroTimeoutWait /\ Raised
    /\ ret = Raise(PublishTimeoutError)
    /\ wt.sleeps = 0 /\ wt.elapsed = 1
    /\ StateReadsIssued = 1

\* --------------------------------------------------------------- C14
\* C14: in a direct wait that reads nothing but Running, TimeoutError is
\* raised only when the time truly elapsed since entry exceeds the timeout,
\* and a timeout test made when it does never goes on to sleep, however the
\* system clock was set meanwhile.
C14_TimeoutMeasuresElapsedTime ==
    (Fn = "wait" /\ seen = <<"Running">>) =>
        /\ ret = Raise(PublishTimeoutError) =>
                wt.truly > wt.timeout_in_minutes * SecondsPerMinute
        /\ (wt.sleeps >= 1 /\ ~Done) =>
                wt.truly <= wt.timeout_in_minutes * SecondsPerMinute

\* --------------------------------------------------------------- C15
\* C15: a direct wait that has read Success read it last, after n reads of
\* states in progress; it has then made exactly n + 1 state reads and n
\* poll sleeps of 30 seconds, makes no further read or sleep, and returns
\* True.
C15_ReturnsAfterNSleeps ==
    (Fn = "wait" /\ \E i \in 1 .. Len(seen) : seen[i] = "Success") =>
        LET n == StateReadsIssued - 1 IN
        /\ \A i \in 1 .. Len(seen) : seen[i] = "Success" <=> i = Len(seen)
        /\ \A p \in 1 .. Len(calls) : Kinds[p] = "state"
        /\ \A p \in 1 .. Len(calls) : calls[p].ok
        /\ wt.reads = n + 1
        /\ wt.sleeps = n /\ out.waiting = n
        /\ now - wt.entered >= n * PollSleepSeconds
        /\ stack \in {<<"wait", "is_published">>, <<"wait">>, <<>>}
        /\ Done => ret = RetBool(TRUE) /\ out.is_published = 1

C15_Witness ==
    /\ Fn = "wait" /\ Returned
    /\ seen = <<"Running", "Success">>
    /\ StateReadsIssued = 3
    /\ wt.sleeps = 2 /\ out.waiting = 2

\* --------------------------------------------------------------- C18
\* The most state reads a wait of timeout_in_minutes makes when the clock
\* advances by the 30 seconds of each sleep.
MostReads(timeout_in_minutes) ==
    (timeout_in_minutes * SecondsPerMinute) \div PollSleepSeconds + 2

WaitOutcomes ==
    {RetBool(TRUE), Raise(PublishTimeoutError), Raise(IncorrectResponseError)}
        \cup {Raise(PublishFailedError(st)) : st \in States}

\* C18: a direct wait, as long as the system clock is not set backwards,
\* makes at most floor(timeout_in_minutes * 60 / 30) + 2 state reads, and
\* eventually ends: it returns True or raises the publish-failed error,
\* TimeoutError or an error of the state read.
C18_WaitTerminates ==
    /\ [](Fn = "wait" /\ ~skew.back =>
            /\ wt.reads <= MostReads(wt.timeout_in_minutes)
            /\ StateReadsIssued <= MostReads(wt.timeout_in_minutes)
            /\ Done => (ret \in WaitOutcomes \/ (ret.k = "exc" /\ ret.e.what = "api")))
    /\ (Fn = "wait" /\ entry.started) ~> (Done \/ skew.back)

C18_Witness ==
    /\ Fn = "wait" /\ Raised /\ ~skew.back
    /\ entry.a.timeout_in_minutes = 1
    /\ ret = Raise(PublishTimeoutError)
    /\ StateReadsIssued = MostReads(1)

\* --------------------------------------------------------------- C19
\* C19: in a direct wait TimeoutError is raised only right after a state
\* read of the same pass of the loop that gave a state in progress, with the
\* time measured beyond the timeout; and a wait whose last read gave
\* Success ends by returning True, also when the time measured at that
\* moment is beyond the timeout.
C19_TimeoutOnlyAfterInProgressRead ==
    Fn = "wait" =>
        /\ ret = Raise(PublishTimeoutError) =>
            /\ seen # <<>>
            /\ IsPublishedOutcome(Last(seen), wt.allow_cancelled) = "false"
            /\ Kind(Last(calls)) = "state" /\ Last(calls).ok
            /\ wt.reads = StateReadsIssued /\ wt.sleeps = wt.reads - 1
            /\ wt.elapsed > wt.timeout_in_minutes * SecondsPerMinute
        /\ (Done /\ seen # <<>> /\ Last(seen) = "Success") => ret = RetBool(TRUE)

C19_Witness ==
    /\ Fn = "wait" /\ Returned
    /\ Last(seen) = "Success"
    /\ ret = RetBool(TRUE)
    /\ TimedOut(TimeTime, wt.start_time, wt.timeout_in_minutes)

\* --------------------------------------------------------------- C16
\* What line 201-202 is to iterate over, from the listing as returned.
ListedWheelFiles ==
    IF da.libraries.hasCL /\ da.libraries.hasWF THEN da.libraries.wheelFiles ELSE <<>>

IsPrefix(q, t) == Len(q) <= Len(t) /\ q = SubSeq(t, 1, Len(q))

\* C16: a direct call of the delete-all issues the listing request first
\* and once; the delete requests it then issues are those of the entries of
\* customLibraries.wheelFiles, one each, in listing order, all of them when
\* it returns; when the listing lacks customLibraries or wheelFiles it issues
\* no delete request and returns without an error.
C16_OneDeletePerListedWheel ==
    Fn = "delete_all" =>
        /\ calls # <<>> => Kinds[1] = "list"
        /\ Len(SentOfKind("list")) <= 1
        /\ \A p \in 2 .. Len(calls) : Kinds[p] = "delete"
        /\ ~da.listed => Len(calls) <= 1
        /\ da.listed =>
            /\ IsPrefix(SentOfKind("delete"), DeletesFor(ListedWheelFiles))
            /\ Returned =>
                /\ SentOfKind("delete") = DeletesFor(ListedWheelFiles)
                /\ ret = RetNone
            /\ (~da.libraries.hasCL \/ ~da.libraries.hasWF) =>
                /\ Len(calls) = 1
                /\ Returned

C16_Witness ==
    /\ Fn = "delete_all" /\ Returned
    /\ ListedWheelFiles = <<<<"a">>, <<"b", " ", "/", "a">>>>
    /\ Len(calls) = 3

\* --------------------------------------------------------------- C17
\* The value of libraryToDelete in a delete URL: what follows the literal
\* "?libraryToDelete=".
QueryValue(url) ==
    LET p == CHOOSE i \in 1 .. Len(url) : url[i] = "?libraryToDelete="
    IN  SubSeq(url, p + 1, Len(url))

\* The encoding the claim describes: a space gives %20, a slash %2F.
RECURSIVE PercentEncoded(_)
PercentEncoded(name) ==
    IF name = <<>> THEN <<>>
    ELSE (CASE Head(name) = " " -> <<"%", "2", "0">>
            [] Head(name) = "/" -> <<"%", "2", "F">>
            [] OTHER -> <<Head(name)>>) \o PercentEncoded(Tail(name))

\* C17: the libraryToDelete value of every delete request holds no raw
\* space and no raw slash: it is the name with each space replaced by %20
\* and each slash by %2F.
C17_DeleteQueryPercentEncoded ==
    \A p \in 1 .. Len(calls) :
        Kinds[p] = "delete" =>
            /\ \A i \in 1 .. Len(QueryValue(calls[p].url)) :
                    QueryValue(calls[p].url)[i] \notin {" ", "/"}
            /\ \E name \in LibNames : QueryValue(calls[p].url) = PercentEncoded(name)

\* --------------------------------------------------------------- C20
\* C20: every attempt of the upload request sends the whole artifact (none
\* finds the handle at end-of-file), and the handle is open only while the
\* upload is running: it is closed once the upload has ended, whichever way.
C20_EveryAttemptSendsWholeFile ==
    /\ file.short = 0
    /\ file.open <=> \E i \in 1 .. Len(stack) : stack[i] = "upload"
    /\ file.closed = file.opened - (IF file.open THEN 1 ELSE 0)

====
